---- MODULE Spec2Model ----
(***************************************************************************)
(* Kids' Hotline mobile client: the auth session (AuthProvider), the       *)
(* persistent key-value store, the API client (makeRequest and the         *)
(* endpoint functions built on it), the locally persisted viewed-content   *)
(* set and the content aggregation (getContentByCategories).               *)
(*                                                                         *)
(* JavaScript runs one callback at a time: every action below is one run   *)
(* of code between two awaits.  A storage operation takes effect when it   *)
(* is issued (AsyncStorage serves its requests in order).                  *)
(***************************************************************************)
EXTENDS Integers, Sequences, FiniteSets, TLC

\* JS null / undefined.
Null == "null"

-----------------------------------------------------------------------------
(* Persistent key-value store                                              *)

AUTH_TOKEN_KEY == "@onetimeonetime_auth_token"
USER_DATA_KEY == "@onetimeonetime_user_data"
VIEWED_CONTENT_KEY == "@onetimeonetime_viewed_content"
SUBSCRIPTION_KEY == "@onetimeonetime_subscription"
ACCENT_COLOR_KEY == "@onetimeonetime_accent_color"

Keys == {AUTH_TOKEN_KEY, USER_DATA_KEY, VIEWED_CONTENT_KEY, SUBSCRIPTION_KEY,
         ACCENT_COLOR_KEY}

\* The two accounts the remote login endpoint knows: its 2xx body {token, user}.
Tokens == {"t1", "t2"}
Users == {"u1", "u2"}
LoginData == {[token |-> "t1", user |-> "u1"], [token |-> "t2", user |-> "u2"]}

\* A stored string is either plain text or the JSON text of a value; an
\* absent key holds nothing.
Absent == <<>>
Text(t) == <<"text", t>>

\* JSON.stringify(v): a string that is not v itself; JSON.parse undoes it and
\* throws on anything that is not JSON text.
Stringify(v) == <<"json", v>>
IsJson(s) == s[1] = "json"
Parse(s) == s[2]

\* getItem(key): the stored string, or null for an absent key.
getItem(store, key) == IF store[key] = Absent THEN Null ELSE store[key][2]

VARIABLES
  storage,    \* AsyncStorage: key -> stored string, or Absent
  state,      \* AuthProvider's React state {isAuthenticated, user, token, isLoading}
  login,      \* the login() call in flight: [pc, data]
  logout,     \* the logout() call in flight: "idle" | "cleared"
  call,       \* the API-client request in flight: [pc, fn, hadToken]
  marks,      \* the markVideoViewed calls in flight: slot -> [pc, id, ids, readOk]
  formError,  \* LoginScreen's error text
  home,       \* HomeScreen's queries: [pc, hadToken, readOk, locallyViewed, fetch,
              \*   sections, outcome, subscription]; the subscription query's
              \*   data is <<>> while undefined, <<status>> once resolved
  marked,     \* the ids whose markVideoViewed call has completed (history)
  faulted,    \* whether a read or a write of the viewed set has failed (history)
  calc,       \* the pure function just applied: [fn, args, result]
  player,     \* ContentPlayerScreen's React state for an audio item
  sounds,     \* the Audio.Sound sessions created so far: id -> [loaded, ...]
  zoom,       \* ZoomableImage's shared values and the gestures in progress
  last,       \* the step just taken and how it ended (observation)
  trail       \* the login / logout -> restart -> hydration scenario being followed

\* The variables the auth session and the API client never touch.
screenVars == <<player, sounds, zoom>>

otherVars == <<calc, screenVars>>

\* The variables of the auth session, the API client and the HomeScreen.
appVars == <<storage, state, login, logout, call, marks, formError, home, marked,
             faulted, last, trail>>

vars == <<appVars, otherVars>>

\* The keys of `vals` minus those whose write fails now hold vals[key].
SetItems(store, vals, failing) ==
  [k \in Keys |-> IF k \in (DOMAIN vals) \ failing THEN vals[k] ELSE store[k]]

\* The keys `keys` minus those whose removal fails are absent.
RemoveItems(store, keys, failing) ==
  [k \in Keys |-> IF k \in keys \ failing THEN Absent ELSE store[k]]

-----------------------------------------------------------------------------
(* lib/auth: getStoredAuth, storeAuth, clearAuth                           *)

\* getStoredAuth: both reads in one Promise.all; a failing read or a user
\* entry that does not parse yields {token: null, user: null}.
getStoredAuth(store, readOk) ==
  IF ~readOk THEN [token |-> Null, user |-> Null]
  ELSE IF store[USER_DATA_KEY] = Absent
       THEN [token |-> getItem(store, AUTH_TOKEN_KEY), user |-> Null]
  ELSE IF ~IsJson(store[USER_DATA_KEY]) THEN [token |-> Null, user |-> Null]
  ELSE [token |-> getItem(store, AUTH_TOKEN_KEY),
        user |-> Parse(store[USER_DATA_KEY])]

\* storeAuth(token, user): the two setItem calls of its Promise.all.
storeAuthMissingUser(store, token, user, failing) ==
  SetItems(store, (AUTH_TOKEN_KEY :> Text(token)), failing)

storeAuth(store, token, user, failing) ==
  SetItems(store,
           (AUTH_TOKEN_KEY :> Text(token)) @@ (USER_DATA_KEY :> Stringify(user)),
           failing)

\* A clearAuth that empties the whole store.
AuthClearKeysAll == Keys

\* The keys clearAuth of lib/auth removes (the one logout() calls).
AuthClearKeys == {AUTH_TOKEN_KEY, USER_DATA_KEY}

\* The keys clearAuth of the API client removes (the one makeRequest calls).
ApiClearKeys == {AUTH_TOKEN_KEY, USER_DATA_KEY, SUBSCRIPTION_KEY}

-----------------------------------------------------------------------------
(* AuthProvider                                                            *)

InitialState ==
  [isAuthenticated |-> FALSE, user |-> Null, token |-> Null, isLoading |-> TRUE]

AuthenticatedState(user, token) ==
  [isAuthenticated |-> TRUE, user |-> user, token |-> token, isLoading |-> FALSE]

AnonymousState ==
  [isAuthenticated |-> FALSE, user |-> Null, token |-> Null, isLoading |-> FALSE]

NoLast == [op |-> "none", fn |-> "-", resp |-> "-", outcome |-> "-", error |-> "-"]
NoTrail == [stage |-> "none", data |-> Null]

NoCalc == [fn |-> "-", args |-> <<>>, result |-> <<>>]

\* ContentPlayerScreen before it is opened. `sound` is the id of the session
\* held in React state (0 for null), `loads` the playback rates captured by
\* the Audio.Sound.createAsync calls still in flight, `tokenRead` and `stream`
\* the progress of the token read and of getStreamUrl, `markCalls` the number
\* of api.markVideoViewed calls issued, `left` the way the screen was left.
\* `itemType` and `pageCount` are the route's item (pageCount <<>> when the
\* item has none, else <<n>>); `pageZooms` holds, by page, the ZoomableImage
\* instances of the pages not currently shown (the shown page's is `zoom`).
\* vimeoVideoId, videoHlsUrl, videoEmbedUrl and videoError tell whether the
\* state of that name is set; `response` is the stream response received.
NoPlayer ==
  [screen |-> "closed", left |-> "-", sound |-> 0, isPlaying |-> FALSE,
   audioDuration |-> 0, audioPosition |-> 0, playbackRate |-> 100,
   progressBarWidth |-> 0, authToken |-> FALSE, tokenRead |-> "-",
   audioStreamUrl |-> FALSE, stream |-> "-", loads |-> <<>>, markCalls |-> 0,
   itemType |-> "-", pageCount |-> <<>>, isLoading |-> TRUE,
   documentPages |-> <<>>, currentPageIndex |-> 0, pageZooms |-> <<>>,
   vimeoVideoId |-> FALSE, videoHlsUrl |-> FALSE, videoEmbedUrl |-> FALSE,
   videoError |-> FALSE, response |-> <<>>]

\* ZoomableImage as mounted: scale 1 (in hundredths), no translation, no
\* animation running (<<>>, or <<target>> while withTiming runs, `midway`
\* once its middle frame has been shown), no gesture in progress.
NoZoom ==
  [variant |-> "inline", scale |-> 100, savedScale |-> 100,
   translateX |-> 0, translateY |-> 0,
   savedTranslateX |-> 0, savedTranslateY |-> 0,
   scaleTo |-> <<>>, translateTo |-> <<>>, midway |-> FALSE,
   pinching |-> FALSE, panning |-> FALSE, isFullscreen |-> FALSE]

Idle == [pc |-> "idle", data |-> Null]
NoCall == [pc |-> "idle", fn |-> "-", hadToken |-> FALSE]

\* The four remote fetches of getContentByCategories, and the HomeScreen
\* before any of its queries has run (useQuery data is undefined).
Fetches == {"categories", "videos", "albums", "documents"}
Pending == [outcome |-> "-", data |-> <<>>]
NoHome ==
  [pc |-> "idle", hadToken |-> FALSE, readOk |-> TRUE, locallyViewed |-> <<>>,
   fetch |-> [f \in Fetches |-> Pending],
   sections |-> <<>>, outcome |-> "-", subscription |-> <<>>]

\* How many markVideoViewed calls can be in flight at once.
MaxMark == 2
MarkSlots == 1..MaxMark
NoMark == [pc |-> "idle", id |-> "-", ids |-> <<>>, readOk |-> TRUE, writeOk |-> TRUE]

\* loadStoredAuth: the setState it ends with, given what getStoredAuth returned.
loadStoredAuthTokenOnly(prev, stored) ==
  IF stored.token # Null
  THEN AuthenticatedState(stored.user, stored.token)
  ELSE [prev EXCEPT !.isLoading = FALSE]

loadStoredAuth(prev, stored) ==
  IF stored.token # Null /\ stored.user # Null
  THEN AuthenticatedState(stored.user, stored.token)
  ELSE [prev EXCEPT !.isLoading = FALSE]

Init ==
  /\ storage = [k \in Keys |-> Absent]
  /\ state = InitialState
  /\ login = Idle
  /\ logout = "idle"
  /\ call = NoCall
  /\ marks = [slot \in MarkSlots |-> NoMark]
  /\ formError = ""
  /\ home = NoHome
  /\ marked = {}
  /\ faulted = FALSE
  /\ calc = NoCalc
  /\ player = NoPlayer
  /\ sounds = <<>>
  /\ zoom = NoZoom
  /\ last = NoLast
  /\ trail = NoTrail

\* The mount effect: loadStoredAuth reads the store and leaves hydration.
Hydrate ==
  /\ state.isLoading
  /\ \E readOk \in BOOLEAN :
       /\ state' = loadStoredAuth(state, getStoredAuth(storage, readOk))
       /\ last' = [NoLast EXCEPT !.op = "hydrate",
                                 !.outcome = IF readOk THEN "read" ELSE "readFailed"]
       /\ trail' = CASE trail.stage = "login-restart" /\ readOk ->
                          [trail EXCEPT !.stage = "login-restart-hydrate"]
                     [] trail.stage = "logout-restart" ->
                          [trail EXCEPT !.stage = "logout-restart-hydrate"]
                     [] OTHER -> NoTrail
  /\ UNCHANGED <<otherVars, faulted, marked, home, storage, login, logout, call, formError, marks>>

\* The app is killed and started again: the store survives, nothing else does.
Restart ==
  /\ state' = InitialState
  /\ login' = Idle
  /\ logout' = "idle"
  /\ call' = NoCall
  /\ marks' = [slot \in MarkSlots |-> NoMark]
  /\ formError' = ""
  /\ last' = [NoLast EXCEPT !.op = "restart"]
  /\ trail' = CASE trail.stage = "login" ->
                     [trail EXCEPT !.stage = "login-restart"]
                [] trail.stage = "logout" ->
                     [trail EXCEPT !.stage = "logout-restart"]
                [] trail.stage \in {"login-restart", "logout-restart"} -> trail
                [] OTHER -> NoTrail
  /\ home' = NoHome
  /\ UNCHANGED <<otherVars, faulted, marked, storage>>

-----------------------------------------------------------------------------
(* LoginScreen.handleLogin and AuthProvider.login                          *)

VALIDATION_ERROR == "Please enter your email and password"
LOGIN_FAILED == "Login failed"
CONNECT_ERROR == "Unable to connect. Please check your internet connection."

Emails == {"", " ", "kid@example.com"}
Passwords == {"", "secret"}
Trim(s) == IF s = " " THEN "" ELSE s

\* What the login endpoint can answer: 2xx, a non-2xx status, no answer at
\* all (fetch throws), a body that is not JSON (response.json() throws).
LoginResponses == {"ok", "non2xx", "neterr", "badjson"}
ServerMessages == {Null, "Invalid email or password"}

\* The Login screen is the only screen mounted.
LoginScreenShown == ~state.isLoading /\ ~state.isAuthenticated

\* handleLogin with an empty field: the error is shown, login() is not called.
HandleLoginInvalid ==
  /\ LoginScreenShown
  /\ login.pc = "idle"
  /\ \E email \in Emails, password \in Passwords :
       Trim(email) = "" \/ Trim(password) = ""
  /\ formError' = VALIDATION_ERROR
  /\ last' = [NoLast EXCEPT !.op = "validate", !.outcome = "failure",
                            !.error = VALIDATION_ERROR]
  /\ UNCHANGED <<otherVars, faulted, marked, home, storage, state, login, logout, call, trail, marks>>

\* handleLogin with both fields filled: login() issues the request.
LoginStart ==
  /\ LoginScreenShown
  /\ login.pc = "idle"
  /\ \E email \in Emails, password \in Passwords :
       Trim(email) # "" /\ Trim(password) # ""
  /\ formError' = ""
  /\ login' = [pc |-> "fetching", data |-> Null]
  /\ last' = [NoLast EXCEPT !.op = "loginStart"]
  /\ UNCHANGED <<otherVars, faulted, marked, home, storage, state, logout, call, trail, marks>>

\* The {success: false, error} login() returns when the request did not
\* come back 2xx (or threw).
loginFailure(resp, message) ==
  IF resp = "non2xx"
  THEN [success |-> FALSE, error |-> IF message # Null THEN message ELSE LOGIN_FAILED]
  ELSE [success |-> FALSE, error |-> CONNECT_ERROR]

\* The store after login() has handled the response `resp`.
loginStoreClearsOnFailure(store, resp, data, failing) ==
  IF resp = "ok" THEN storeAuth(store, data.token, data.user, failing)
  ELSE RemoveItems(store, AuthClearKeys, {})

loginStore(store, resp, data, failing) ==
  IF resp = "ok" THEN storeAuth(store, data.token, data.user, failing)
  ELSE store

\* The response arrives.  Not 2xx: login() returns the failure and handleLogin
\* shows it.  2xx: storeAuth is issued; if a write fails the catch returns the
\* connection failure.
LoginRespond ==
  /\ login.pc = "fetching"
  /\ \E resp \in LoginResponses, message \in ServerMessages, data \in LoginData,
        failing \in SUBSET AuthClearKeys :
       /\ resp # "ok" => failing = {}
       /\ resp # "non2xx" => message = Null
       /\ storage' = loginStore(storage, resp, data, failing)
       /\ IF resp = "ok" /\ failing = {}
          THEN /\ login' = [pc |-> "stored", data |-> data]
               /\ trail' = [stage |-> "stored", data |-> data]
               /\ last' = [NoLast EXCEPT !.op = "loginStored", !.resp = resp]
               /\ UNCHANGED formError
          ELSE /\ login' = Idle
               /\ formError' = loginFailure(IF resp = "ok" THEN "neterr" ELSE resp,
                                            message).error
               /\ last' = [NoLast EXCEPT !.op = "login", !.resp = resp,
                                         !.outcome = "failure",
                                         !.error = formError']
               /\ trail' = IF resp = "ok" THEN NoTrail ELSE trail
  /\ UNCHANGED <<otherVars, faulted, marked, home, state, logout, call, marks>>

\* The setState login() ends with once storeAuth has resolved.
loginSetStateNoToken(data) == AuthenticatedState(data.user, Null)

loginSetState(data) == AuthenticatedState(data.user, data.token)

\* storeAuth has resolved: setState, return {success: true}.
LoginFinish ==
  /\ login.pc = "stored"
  /\ state' = loginSetState(login.data)
  /\ login' = Idle
  /\ last' = [NoLast EXCEPT !.op = "login", !.resp = "ok", !.outcome = "success"]
  /\ trail' = IF trail.stage = "stored" THEN [trail EXCEPT !.stage = "login"]
              ELSE NoTrail
  /\ UNCHANGED <<otherVars, faulted, marked, home, storage, logout, call, formError, marks>>

-----------------------------------------------------------------------------
(* AuthProvider.logout                                                     *)

\* A screen behind the login is mounted (Home, ContentPlayer).
HomeShown == ~state.isLoading /\ state.isAuthenticated

\* logout() issues clearAuth; if a removal fails logout() rejects there.
LogoutStart ==
  /\ HomeShown
  /\ logout = "idle"
  /\ \E failing \in SUBSET AuthClearKeys :
       /\ storage' = RemoveItems(storage, AuthClearKeys, failing)
       /\ IF failing = {}
          THEN /\ logout' = "cleared"
               /\ last' = [NoLast EXCEPT !.op = "logoutCleared"]
          ELSE /\ logout' = "idle"
               /\ last' = [NoLast EXCEPT !.op = "logout", !.outcome = "rejected"]
  /\ trail' = NoTrail
  /\ UNCHANGED <<otherVars, faulted, marked, home, state, login, call, formError, marks>>

\* The setState logout() ends with.
logoutSetStateKeepsToken(prev) == [prev EXCEPT !.isAuthenticated = FALSE]

logoutSetState(prev) == AnonymousState

\* clearAuth has resolved: setState.
LogoutFinish ==
  /\ logout = "cleared"
  /\ state' = logoutSetState(state)
  /\ logout' = "idle"
  /\ last' = [NoLast EXCEPT !.op = "logout", !.outcome = "success"]
  /\ trail' = [stage |-> "logout", data |-> Null]
  /\ UNCHANGED <<otherVars, faulted, marked, home, storage, login, call, formError, marks>>

-----------------------------------------------------------------------------
(* API client: makeRequest and the endpoint functions that only forward    *)
(* to it                                                                   *)

PlainFns == {"getStreamUrl", "getAlbumById"}

\* What the backend can answer.  A protected endpoint answers 2xx only to a
\* request that carries a bearer token.
Responses(hadToken) ==
  IF hadToken THEN {"ok", "401", "500", "neterr"} ELSE {"401", "500", "neterr"}

\* How makeRequest ends for a response: it resolves, or throws one of
\* AuthExpired (401), RequestFailed (other non-2xx), the fetch's own error,
\* or the error of a clearAuth removal that failed.
makeRequestOutcome(resp, failing) ==
  CASE resp = "ok" -> "ok"
    [] resp = "401" -> IF failing = {} THEN "AuthExpired" ELSE "StorageError"
    [] resp = "500" -> "RequestFailed"
    [] OTHER -> "NetworkError"

\* The store after makeRequest has handled the response: 401 purges it.
makeRequestStore(store, resp, failing) ==
  IF resp = "401" THEN RemoveItems(store, ApiClearKeys, failing) ELSE store

\* The auth state after makeRequest has handled the response: the API client
\* has no access to it.
makeRequestStateLogsOut(prev, resp) ==
  IF resp = "401" THEN AnonymousState ELSE prev

makeRequestState(prev, resp) == prev

\* The subscription statuses the backend can report, and the one
\* checkSubscription returns when its request or its cache write fails.
SubscriptionStatuses ==
  { [subscriptionStatus |-> "active", active |-> TRUE, isWhitelisted |-> FALSE],
    [subscriptionStatus |-> "expired", active |-> FALSE, isWhitelisted |-> FALSE],
    [subscriptionStatus |-> "expired", active |-> FALSE, isWhitelisted |-> TRUE] }
DefaultSubscription ==
  [subscriptionStatus |-> "unknown", active |-> TRUE, isWhitelisted |-> FALSE]

\* A screen calls an endpoint function: makeRequest reads the token (the read
\* may fail, and then the call throws before any request) and issues the
\* request.  checkSubscription catches that throw and returns its default.
CallStart(fns) ==
  /\ HomeShown
  /\ call.pc = "idle"
  /\ \E fn \in fns, readOk \in BOOLEAN :
       IF readOk
       THEN /\ call' = [pc |-> "fetching", fn |-> fn,
                        hadToken |-> getItem(storage, AUTH_TOKEN_KEY) # Null]
            /\ last' = [NoLast EXCEPT !.op = "callStart", !.fn = fn]
            /\ UNCHANGED home
       ELSE /\ call' = NoCall
            /\ last' = [NoLast EXCEPT
                          !.op = "call", !.fn = fn,
                          !.outcome = IF fn = "checkSubscription" THEN "ok"
                                      ELSE "StorageError"]
            /\ home' = IF fn = "checkSubscription"
                       THEN [home EXCEPT !.subscription = <<DefaultSubscription>>]
                       ELSE home
  /\ UNCHANGED <<otherVars, faulted, marked, storage, state, login, logout, formError, trail, marks>>

\* The response arrives and makeRequest finishes.
CallRespond ==
  /\ call.pc = "fetching"
  /\ call.fn \in PlainFns
  /\ \E resp \in Responses(call.hadToken), failing \in SUBSET ApiClearKeys :
       /\ resp # "401" => failing = {}
       /\ storage' = makeRequestStore(storage, resp, failing)
       /\ state' = makeRequestState(state, resp)
       /\ last' = [NoLast EXCEPT !.op = "call", !.fn = call.fn, !.resp = resp,
                                 !.outcome = makeRequestOutcome(resp, failing)]
       /\ trail' = IF resp = "401" THEN NoTrail ELSE trail
  /\ call' = NoCall
  /\ UNCHANGED <<otherVars, faulted, marked, home, login, logout, formError, marks>>

\* checkSubscription: what it returns, given how its makeRequest ended, the
\* status the backend sent and whether the cache write went through.
checkSubscription(outcome, status, writeOk) ==
  IF outcome = "ok" /\ writeOk THEN status ELSE DefaultSubscription

\* How checkSubscription ends: every throw inside it is caught.
checkSubscriptionOutcome(outcome) == "ok"

\* The response to checkSubscription's request arrives: makeRequest finishes
\* (a 401 purges the store), the status is cached, and the HomeScreen query
\* gets what checkSubscription returned.
CheckSubscriptionRespond ==
  /\ call.pc = "fetching"
  /\ call.fn = "checkSubscription"
  /\ \E resp \in Responses(call.hadToken), failing \in SUBSET ApiClearKeys,
        status \in SubscriptionStatuses, writeOk \in BOOLEAN :
       /\ resp # "401" => failing = {}
       /\ resp # "ok" => writeOk
       /\ LET outcome == makeRequestOutcome(resp, failing)
              cleared == makeRequestStore(storage, resp, failing)
          IN /\ storage' = IF outcome = "ok"
                           THEN SetItems(cleared,
                                         SUBSCRIPTION_KEY :> Stringify(status),
                                         IF writeOk THEN {} ELSE {SUBSCRIPTION_KEY})
                           ELSE cleared
             /\ home' = [home EXCEPT !.subscription =
                           <<checkSubscription(outcome, status, writeOk)>>]
             /\ last' = [NoLast EXCEPT
                           !.op = "call", !.fn = call.fn, !.resp = resp,
                           !.outcome = checkSubscriptionOutcome(outcome),
                           !.error = IF outcome = "ok" /\ ~writeOk
                                     THEN "StorageError" ELSE outcome]
       /\ state' = makeRequestState(state, resp)
       /\ trail' = IF resp = "401" THEN NoTrail ELSE trail
  /\ call' = NoCall
  /\ UNCHANGED <<otherVars, faulted, marked, login, logout, formError, marks>>

ApiFns == PlainFns \cup {"checkSubscription"}

\* HomeScreen.isSubscriptionInactive, over the subscription query's data.
isSubscriptionInactive(subscription) ==
  IF subscription = <<>> THEN FALSE
  ELSE IF subscription[1].isWhitelisted THEN FALSE
  ELSE ~subscription[1].active

Next ==
  \/ Hydrate
  \/ Restart
  \/ HandleLoginInvalid
  \/ LoginStart
  \/ LoginRespond
  \/ LoginFinish
  \/ LogoutStart
  \/ LogoutFinish
  \/ CallStart(ApiFns)
  \/ CallRespond
  \/ CheckSubscriptionRespond

Spec == Init /\ [][Next]_vars

-----------------------------------------------------------------------------
(* API client: the locally persisted viewed-content set, markVideoViewed   *)

VideoIds == {"v1", "v2"}

Range(seq) == {seq[i] : i \in 1..Len(seq)}

\* A JS Set is kept in insertion order: a sequence without repetitions.
\* new Set(array) and set.add(x):
NewSet(array) ==
  LET RECURSIVE build(_, _)
      build(i, acc) ==
        IF i > Len(array) THEN acc
        ELSE build(i + 1, IF array[i] \in Range(acc) THEN acc
                          ELSE Append(acc, array[i]))
  IN build(1, <<>>)
SetAdd(set, x) == IF x \in Range(set) THEN set ELSE Append(set, x)

\* getLocalViewedContent: the parsed array as a Set; the empty Set when the
\* key is absent, the read fails or the text does not parse.
getLocalViewedContent(store, readOk) ==
  IF readOk /\ store[VIEWED_CONTENT_KEY] # Absent /\ IsJson(store[VIEWED_CONTENT_KEY])
  THEN NewSet(Parse(store[VIEWED_CONTENT_KEY]))
  ELSE <<>>

\* setLocalViewedContent: writes [...ids]; a failing write is only logged.
setLocalViewedContent(store, ids, writeOk) ==
  IF writeOk THEN [store EXCEPT ![VIEWED_CONTENT_KEY] = Stringify(ids)] ELSE store

\* The ids in the stored viewed set.
StoredViewed == Range(getLocalViewedContent(storage, TRUE))

\* How markVideoViewed ends for a response: it looks at the status only to
\* log it, and resolves.
markVideoViewedOutcome(resp) == "ok"

\* The store after markVideoViewed has got the response: untouched.
markVideoViewedStore(store, resp) == store

\* The player screen's effect calls markVideoViewed(id): the stored set is
\* read.
MarkStart(slot) ==
  /\ HomeShown
  /\ marks[slot].pc = "idle"
  /\ \A other \in MarkSlots : other < slot => marks[other].pc # "idle"
  /\ \E id \in VideoIds, readOk \in BOOLEAN :
       /\ marks' = [marks EXCEPT ![slot] =
                      [pc |-> "read", id |-> id,
                       ids |-> getLocalViewedContent(storage, readOk),
                       readOk |-> readOk, writeOk |-> TRUE]]
       /\ faulted' = (faulted \/ ~readOk)
       /\ last' = [NoLast EXCEPT !.op = "markRead"]
  /\ UNCHANGED <<otherVars, marked, home, storage, state, login, logout, call, formError, trail>>

\* The set read earlier, with the id added, is written back.
MarkWrite(slot) ==
  /\ marks[slot].pc = "read"
  /\ \E writeOk \in BOOLEAN :
       /\ storage' = setLocalViewedContent(
                       storage, SetAdd(marks[slot].ids, marks[slot].id), writeOk)
       /\ faulted' = (faulted \/ ~writeOk)
       /\ last' = [NoLast EXCEPT !.op = "markWrite"]
       /\ marks' = [marks EXCEPT ![slot] =
                      [@ EXCEPT !.pc = "written", !.ids = <<>>, !.writeOk = writeOk]]
  /\ UNCHANGED <<otherVars, marked, home, state, login, logout, call, formError, trail>>

\* The token is read (a failing read makes markVideoViewed reject), the POST
\* is sent with fetch and its response arrives.
MarkRespond(slot) ==
  /\ marks[slot].pc = "written"
  /\ \E readOk \in BOOLEAN,
        resp \in Responses(getItem(storage, AUTH_TOKEN_KEY) # Null) :
       /\ storage' = IF readOk THEN markVideoViewedStore(storage, resp) ELSE storage
       /\ last' = [NoLast EXCEPT
                     !.op = "markVideoViewed", !.fn = marks[slot].id,
                     !.resp = IF readOk THEN resp ELSE "-",
                     !.outcome = IF readOk THEN markVideoViewedOutcome(resp)
                                 ELSE "StorageError"]
       /\ marked' = IF readOk /\ markVideoViewedOutcome(resp) = "ok"
                    THEN marked \cup {marks[slot].id} ELSE marked
  /\ marks' = [marks EXCEPT ![slot] = NoMark]
  /\ UNCHANGED <<otherVars, faulted, home, state, login, logout, call, formError, trail>>

\* A session in use: the user logged in, the Home screen has cached the
\* subscription status.
LoggedInStorage ==
  [k \in Keys |->
     CASE k = AUTH_TOKEN_KEY -> Text("t1")
       [] k = USER_DATA_KEY -> Stringify("u1")
       [] k = SUBSCRIPTION_KEY ->
            Stringify([subscriptionStatus |-> "active", active |-> TRUE,
                       isWhitelisted |-> FALSE])
       [] OTHER -> Absent]

InitViewed ==
  /\ storage = LoggedInStorage
  /\ state = AuthenticatedState("u1", "t1")
  /\ login = Idle
  /\ logout = "idle"
  /\ call = NoCall
  /\ marks = [slot \in MarkSlots |-> NoMark]
  /\ formError = ""
  /\ home = NoHome
  /\ marked = {}
  /\ faulted = FALSE
  /\ calc = NoCalc
  /\ player = NoPlayer
  /\ sounds = <<>>
  /\ zoom = NoZoom
  /\ last = NoLast
  /\ trail = NoTrail

NextViewed ==
  \/ \E slot \in MarkSlots : MarkStart(slot)
  \/ \E slot \in MarkSlots : MarkWrite(slot)
  \/ \E slot \in MarkSlots : MarkRespond(slot)

\* The API client under an authenticated session: overlapping
\* markVideoViewed calls.
SpecViewed == InitViewed /\ [][NextViewed]_vars

-----------------------------------------------------------------------------
(* API client: formatCategoryName and getContentByCategories               *)

\* Category identifiers and names are texts whose characters matter: a text
\* is the sequence of its characters, <<>> the empty text.  A missing (null or
\* undefined) text is <<>> as well: the code only tests such values for
\* truthiness.
NoString == <<>>

LowerCase ==
  <<"a", "b", "c", "d", "e", "f", "g", "h", "i", "j", "k", "l", "m",
    "n", "o", "p", "q", "r", "s", "t", "u", "v", "w", "x", "y", "z">>
UpperCase ==
  <<"A", "B", "C", "D", "E", "F", "G", "H", "I", "J", "K", "L", "M",
    "N", "O", "P", "Q", "R", "S", "T", "U", "V", "W", "X", "Y", "Z">>

toUpperCaseChar(c) ==
  IF \E i \in DOMAIN LowerCase : LowerCase[i] = c
  THEN UpperCase[CHOOSE i \in DOMAIN LowerCase : LowerCase[i] = c]
  ELSE c
toLowerCaseChar(c) ==
  IF \E i \in DOMAIN UpperCase : UpperCase[i] = c
  THEN LowerCase[CHOOSE i \in DOMAIN UpperCase : UpperCase[i] = c]
  ELSE c
toUpperCase(str) == [i \in DOMAIN str |-> toUpperCaseChar(str[i])]
toLowerCase(str) == [i \in DOMAIN str |-> toLowerCaseChar(str[i])]

\* str.split(/[-_]/): the pieces between separators, empty pieces included.
SplitOnSeparators(str) ==
  LET RECURSIVE split(_, _, _)
      split(i, words, word) ==
        IF i > Len(str) THEN Append(words, word)
        ELSE IF str[i] \in {"-", "_"}
             THEN split(i + 1, Append(words, word), <<>>)
             ELSE split(i + 1, words, Append(word, str[i]))
  IN split(1, <<>>, <<>>)

\* words.join(" ")
JoinWithSpace(words) ==
  LET RECURSIVE join(_, _)
      join(i, acc) ==
        IF i > Len(words) THEN acc
        ELSE join(i + 1, IF i = 1 THEN words[i] ELSE acc \o <<" ">> \o words[i])
  IN join(1, <<>>)

\* word.charAt(0).toUpperCase() + word.slice(1).toLowerCase()
Capitalize(word) ==
  IF word = <<>> THEN <<>>
  ELSE <<toUpperCaseChar(word[1])>> \o toLowerCase(SubSeq(word, 2, Len(word)))

formatCategoryName(category) ==
  LET words == SplitOnSeparators(category)
  IN JoinWithSpace([i \in DOMAIN words |-> Capitalize(words[i])])

UNCATEGORIZED == <<"u", "n", "c", "a", "t", "e", "g", "o", "r", "i", "z", "e", "d">>
ALBUMS_NAME == <<"A", "l", "b", "u", "m", "s">>
DOCUMENTS_NAME == <<"D", "o", "c", "u", "m", "e", "n", "t", "s">>

\* What the backend holds.  Category ids "bed-time" and "PARSHA_shorts"; the
\* second category may come with an empty name.
BedTime == <<"b", "e", "d", "-", "t", "i", "m", "e">>
ParshaShorts == <<"P", "A", "R", "S", "H", "A", "_", "s", "h", "o", "r", "t", "s">>
CategoryIds == {BedTime, ParshaShorts}
StoriesName == <<"S", "t", "o", "r", "i", "e", "s">>
CategoryListings ==
  { <<>>,
    <<[id |-> BedTime, name |-> StoriesName]>>,
    <<[id |-> BedTime, name |-> StoriesName],
      [id |-> ParshaShorts, name |-> NoString]>> }
AlbumListings == { <<>>, <<[id |-> "a1", trackCount |-> 2]>> }
DocumentListings == { <<>>, <<[id |-> "d1", pageCount |-> 3]>> }

\* The unified listing: at most MaxListing items, the i-th with id ItemIds[i],
\* each with any category (or none) and any media type (or none).  A time is
\* <<>> when missing, <<t>> otherwise.
MaxListing == 2
ItemIds == <<"v1", "v2", "v3", "v4">>
MediaTypes == {"video", "audio"}
ItemShapes == [categoryId : CategoryIds \cup {NoString}, mediaType : MediaTypes]
VideoItem(id, shape) ==
  [id |-> id, categoryId |-> shape.categoryId, mediaType |-> shape.mediaType,
   thumbnailPath |-> Null, bunnyThumbnailUrl |-> Null, bunnyGuid |-> "guid",
   createdAt |-> <<>>, viewed |-> FALSE]
VideoListings ==
  UNION { { [i \in 1..n |-> VideoItem(ItemIds[i], shapes[i])] :
              shapes \in [1..n -> ItemShapes] } : n \in 0..MaxListing }

Payloads(which) ==
  CASE which = "categories" -> CategoryListings
    [] which = "videos" -> VideoListings
    [] which = "albums" -> AlbumListings
    [] which = "documents" -> DocumentListings

\* getVideoThumbnailUrl: the first of thumbnailPath, bunnyThumbnailUrl and
\* bunnyGuid that is set decides; a URL is a tuple of its parts, <<>> is null.
getVideoThumbnailUrl(video) ==
  CASE video.thumbnailPath # Null ->
         [url |-> <<"api/videos", video.id, "thumbnail">>, requiresAuth |-> TRUE]
    [] video.thumbnailPath = Null /\ video.bunnyThumbnailUrl # Null ->
         [url |-> <<video.bunnyThumbnailUrl>>, requiresAuth |-> FALSE]
    [] video.thumbnailPath = Null /\ video.bunnyThumbnailUrl = Null
         /\ video.bunnyGuid # Null ->
         [url |-> <<"cdn", video.bunnyGuid, "thumbnail.jpg">>,
          requiresAuth |-> FALSE]
    [] OTHER -> [url |-> <<>>, requiresAuth |-> FALSE]
getAlbumThumbnailUrl(albumId) ==
  [url |-> <<"api/albums", albumId, "thumbnail">>, requiresAuth |-> TRUE]

\* isVideoNew, times in hours.
TwentyFourHours == 24
Times == {30}
isVideoNewInclusive(video, locallyViewed, now) ==
  IF video.createdAt = <<>> THEN FALSE
  ELSE IF locallyViewed \/ video.viewed THEN FALSE
  ELSE now - video.createdAt[1] <= TwentyFourHours

isVideoNew(video, locallyViewed, now) ==
  IF video.createdAt = <<>> THEN FALSE
  ELSE IF locallyViewed \/ video.viewed THEN FALSE
  ELSE now - video.createdAt[1] < TwentyFourHours

\* What is kept of how a sub-fetch ended: it resolved, it threw AuthExpired,
\* or it threw something else.
Settled(outcome) ==
  IF outcome \in {"ok", "AuthExpired"} THEN outcome ELSE "Error"

\* The value a sub-fetch contributes: .catch(() => []) replaces any throw by
\* the empty list.
OrEmpty(fetched) == IF fetched.outcome = "ok" THEN fetched.data ELSE <<>>

\* new Map(videoCategories.map(c => [c.id, c.name])).get(id): the name of the
\* last category with that id, NoString (undefined) when there is none.
categoryMapGet(videoCategories, id) ==
  LET at == {i \in DOMAIN videoCategories : videoCategories[i].id = id}
  IN IF at = {} THEN NoString
     ELSE videoCategories[CHOOSE i \in at : \A j \in at : j <= i].name

CategoryKeyNoDefault(item) == item.categoryId

CategoryKey(item) ==
  IF item.categoryId # NoString THEN item.categoryId ELSE UNCATEGORIZED

\* The keys of contentByCategory, in insertion order.
CategoryKeysNewestFirst(allContent) ==
  LET keys == NewSet([i \in DOMAIN allContent |-> CategoryKey(allContent[i])])
  IN [k \in DOMAIN keys |-> keys[Len(keys) + 1 - k]]

CategoryKeys(allContent) ==
  NewSet([i \in DOMAIN allContent |-> CategoryKey(allContent[i])])

CategoryName(videoCategories, categoryId) ==
  IF categoryMapGet(videoCategories, categoryId) # NoString
  THEN categoryMapGet(videoCategories, categoryId)
  ELSE formatCategoryName(categoryId)

ToContentItem(item, locallyViewed, now) ==
  [id |-> item.id,
   type |-> IF item.mediaType = "audio" THEN "audio" ELSE "video",
   thumbnailUrl |-> getVideoThumbnailUrl(item).url,
   thumbnailRequiresAuth |-> getVideoThumbnailUrl(item).requiresAuth,
   categoryId |-> item.categoryId,
   createdAt |-> item.createdAt,
   isNew |-> isVideoNew(item, item.id \in Range(locallyViewed), now)]

CategorySection(videoCategories, allContent, categoryId, locallyViewed, now) ==
  LET categoryItems ==
        SelectSeq(allContent, LAMBDA item : CategoryKey(item) = categoryId)
  IN [id |-> <<"content-", categoryId>>,
      name |-> CategoryName(videoCategories, categoryId),
      type |-> "video",
      items |-> [i \in DOMAIN categoryItems |->
                   ToContentItem(categoryItems[i], locallyViewed, now)]]

AlbumSection(albums) ==
  [id |-> <<"albums">>, name |-> ALBUMS_NAME, type |-> "album",
   items |-> [i \in DOMAIN albums |->
                [id |-> albums[i].id, type |-> "album",
                 thumbnailUrl |-> getAlbumThumbnailUrl(albums[i].id).url,
                 thumbnailRequiresAuth |->
                   getAlbumThumbnailUrl(albums[i].id).requiresAuth,
                 trackCount |-> albums[i].trackCount]]]

DocumentSection(documents) ==
  [id |-> <<"documents">>, name |-> DOCUMENTS_NAME, type |-> "document",
   items |-> [i \in DOMAIN documents |->
                [id |-> documents[i].id, type |-> "document",
                 pageCount |-> documents[i].pageCount]]]

\* getContentByCategories: the sections it returns, given what the four
\* fetches and the read of the viewed set contributed.
getContentByCategories(fetch, locallyViewed, now) ==
  LET videoCategories == OrEmpty(fetch["categories"])
      allContent == OrEmpty(fetch["videos"])
      albums == OrEmpty(fetch["albums"])
      documents == OrEmpty(fetch["documents"])
      keys == CategoryKeys(allContent)
  IN [k \in DOMAIN keys |->
        CategorySection(videoCategories, allContent, keys[k], locallyViewed, now)]
     \o (IF Len(albums) > 0 THEN <<AlbumSection(albums)>> ELSE <<>>)
     \o (IF Len(documents) > 0 THEN <<DocumentSection(documents)>> ELSE <<>>)

\* How getContentByCategories ends: each fetch has its own catch, so it
\* resolves whatever the fetches did.
getContentByCategoriesFailsWithFetch(fetch) ==
  IF \A f \in Fetches : fetch[f].outcome = "ok" THEN "ok"
  ELSE fetch[CHOOSE f \in Fetches : fetch[f].outcome # "ok"].outcome

getContentByCategoriesOutcome(fetch) == "ok"

\* HomeScreen's content query runs getContentByCategories: the viewed set is
\* read, each of the four fetches reads the token and sends its request.
GetContentStart ==
  /\ HomeShown
  /\ home.pc = "idle"
  /\ \E readOk \in BOOLEAN :
       /\ home' = [home EXCEPT
                     !.pc = "fetching",
                     !.hadToken = getItem(storage, AUTH_TOKEN_KEY) # Null,
                     !.readOk = readOk,
                     !.locallyViewed = getLocalViewedContent(storage, readOk)]
       /\ faulted' = (faulted \/ ~readOk)
       /\ last' = [NoLast EXCEPT !.op = "getContentStart",
                                 !.outcome = IF readOk THEN "read" ELSE "readFailed"]
  /\ UNCHANGED <<otherVars, marked, storage, state, login, logout, call, marks, formError, trail>>

\* The response to one of the four requests arrives, in any order: its
\* makeRequest finishes (a 401 purges the store) and its catch turns a throw
\* into the empty list.
FetchRespond(which, payloads) ==
  /\ home.pc = "fetching"
  /\ home.fetch[which] = Pending
  /\ \E resp \in Responses(home.hadToken), failing \in SUBSET ApiClearKeys,
        data \in payloads :
       /\ resp # "401" => failing = {}
       /\ resp # "ok" => data = <<>>
       /\ storage' = makeRequestStore(storage, resp, failing)
       /\ state' = makeRequestState(state, resp)
       /\ home' = [home EXCEPT !.fetch[which] =
                     [outcome |-> Settled(makeRequestOutcome(resp, failing)),
                      data |-> data]]
       /\ last' = [NoLast EXCEPT !.op = "fetch"]
       /\ trail' = IF resp = "401" THEN NoTrail ELSE trail
  /\ UNCHANGED <<otherVars, faulted, marked, login, logout, call, marks, formError>>

\* All four fetches have settled: getContentByCategories builds the sections
\* and the query gets them.
GetContentFinish ==
  /\ home.pc = "fetching"
  /\ \A f \in Fetches : home.fetch[f] # Pending
  /\ \E now \in Times :
       home' = [home EXCEPT
                  !.pc = "done",
                  !.outcome = getContentByCategoriesOutcome(home.fetch),
                  !.sections =
                    IF getContentByCategoriesOutcome(home.fetch) = "ok"
                    THEN getContentByCategories(home.fetch, home.locallyViewed, now)
                    ELSE <<>>]
  /\ last' = [NoLast EXCEPT
                !.op = "getContentByCategories",
                !.outcome = getContentByCategoriesOutcome(home.fetch)]
  /\ UNCHANGED <<otherVars, faulted, marked, storage, state, login, logout, call, marks, formError, trail>>

InitHome ==
  /\ storage = [LoggedInStorage EXCEPT ![VIEWED_CONTENT_KEY] = Stringify(<<"v1">>)]
  /\ state = AuthenticatedState("u1", "t1")
  /\ login = Idle
  /\ logout = "idle"
  /\ call = NoCall
  /\ marks = [slot \in MarkSlots |-> NoMark]
  /\ formError = ""
  /\ home = NoHome
  /\ marked = {}
  /\ faulted = FALSE
  /\ calc = NoCalc
  /\ player = NoPlayer
  /\ sounds = <<>>
  /\ zoom = NoZoom
  /\ last = NoLast
  /\ trail = NoTrail

NextHome ==
  \/ GetContentStart
  \/ \E which \in Fetches : FetchRespond(which, Payloads(which))
  \/ GetContentFinish

\* The HomeScreen's content query under an authenticated session: one run of
\* getContentByCategories over whatever the backend holds and answers.
SpecHome == InitHome /\ [][NextHome]_vars

-----------------------------------------------------------------------------
(* The "new" badge: markVideoViewed in the player, then the HomeScreen query *)

\* Creation times against the clock of Times: ten hours old, and exactly
\* twenty-four hours old.
FreshTime == <<20>>
OldTime == <<6>>

BadgeItem(id, createdAt, viewed) ==
  [VideoItem(id, [categoryId |-> NoString, mediaType |-> "video"])
     EXCEPT !.createdAt = createdAt, !.viewed = viewed]

\* The backend holds the two items the player can mark: the first fresh or
\* old, with the server's viewed flag set or not, the second fresh and not
\* viewed; no albums, no documents.
BadgeListings ==
  { <<BadgeItem("v1", c1, w1), BadgeItem("v2", FreshTime, FALSE)>> :
      c1 \in {FreshTime, OldTime}, w1 \in BOOLEAN }
BadgePayloads(which) == IF which = "videos" THEN BadgeListings ELSE {<<>>}

\* The player marks items while the HomeScreen is covered; the HomeScreen
\* refetches when it gets the focus back, no markVideoViewed call being in
\* flight any more.
NextBadge ==
  \/ \E slot \in MarkSlots : home.pc = "idle" /\ MarkStart(slot)
  \/ \E slot \in MarkSlots : MarkWrite(slot)
  \/ \E slot \in MarkSlots : MarkRespond(slot)
  \/ (\A slot \in MarkSlots : marks[slot].pc = "idle") /\ GetContentStart
  \/ \E which \in Fetches : FetchRespond(which, BadgePayloads(which))
  \/ GetContentFinish

SpecBadge == InitViewed /\ [][NextBadge]_vars

-----------------------------------------------------------------------------
(* The pure helpers of the API client, each applied once to an input of    *)
(* its own                                                                 *)

\* The times isVideoNew is tried on: 0..MaxTime hours, for the creation time
\* and for the clock.
MaxTime == 30
ClockTimes == 0..MaxTime
CreatedAts == {<<>>} \cup {<<t>> : t \in ClockTimes}

IsVideoNewCall ==
  /\ calc = NoCalc
  /\ \E createdAt \in CreatedAts, viewed \in BOOLEAN,
        locallyViewed \in BOOLEAN, now \in ClockTimes :
       LET video == BadgeItem("v1", createdAt, viewed)
       IN calc' = [fn |-> "isVideoNew",
                   args |-> <<video, locallyViewed, now>>,
                   result |-> <<isVideoNew(video, locallyViewed, now)>>]
  /\ UNCHANGED <<appVars, screenVars>>

\* The texts formatCategoryName is tried on: at most MaxText characters, each
\* a lower-case letter, an upper-case letter, a separator or a space.
MaxText == 4
TextChars == {"a", "B", "-", "_", " "}
Texts == UNION { [1..n -> TextChars] : n \in 0..MaxText }

FormatCategoryNameCall ==
  /\ calc = NoCalc
  /\ \E category \in Texts :
       calc' = [fn |-> "formatCategoryName",
                args |-> <<category>>,
                result |-> <<formatCategoryName(category)>>]
  /\ UNCHANGED <<appVars, screenVars>>

InitPure ==
  /\ storage = [k \in Keys |-> Absent]
  /\ state = InitialState
  /\ login = Idle
  /\ logout = "idle"
  /\ call = NoCall
  /\ marks = [slot \in MarkSlots |-> NoMark]
  /\ formError = ""
  /\ home = NoHome
  /\ marked = {}
  /\ faulted = FALSE
  /\ calc = NoCalc
  /\ player = NoPlayer
  /\ sounds = <<>>
  /\ zoom = NoZoom
  /\ last = NoLast
  /\ trail = NoTrail

NextPure ==
  \/ IsVideoNewCall
  \/ FormatCategoryNameCall

SpecPure == InitPure /\ [][NextPure]_vars

-----------------------------------------------------------------------------
(* Properties of the auth session                                          *)

\* C1: in every reachable state of the auth session, isAuthenticated is true
\* exactly when both token and user are non-null.
C1_IsAuthenticatedIffTokenAndUser ==
  state.isAuthenticated <=> (state.token # Null /\ state.user # Null)

\* An authenticated session that hydration produced after a login and a restart.
C1_Witness ==
  /\ last.op = "hydrate"
  /\ state.isAuthenticated
  /\ state.token \in Tokens
  /\ state.user \in Users

\* C3: once login() has succeeded, and until a logout or a 401 purge touches
\* the store, the session is {isAuthenticated: true, user, token} of the login
\* response and the store holds that token and that user; a restart whose
\* hydration reads the store then reaches the same authenticated state with
\* no login call.
C3_LoginSurvivesRestart ==
  /\ trail.stage = "login" =>
       /\ state = AuthenticatedState(trail.data.user, trail.data.token)
       /\ storage[AUTH_TOKEN_KEY] = Text(trail.data.token)
       /\ storage[USER_DATA_KEY] = Stringify(trail.data.user)
  /\ trail.stage = "login-restart" =>
       /\ storage[AUTH_TOKEN_KEY] = Text(trail.data.token)
       /\ storage[USER_DATA_KEY] = Stringify(trail.data.user)
  /\ trail.stage = "login-restart-hydrate" =>
       state = AuthenticatedState(trail.data.user, trail.data.token)

\* Hydration after a successful login and a restart has run.
C3_Witness ==
  /\ trail.stage = "login-restart-hydrate"
  /\ last.op = "hydrate"
  /\ state.isAuthenticated
  /\ login.pc = "idle"

\* C4: the session starts hydrating and leaves hydration only by
\* loadStoredAuth: to authenticated iff the read succeeded and both a token
\* and a user are stored, otherwise to anonymous; within one run of the app
\* isLoading never becomes true again, whatever login or logout does.
C4_HydratesOnce ==
  [][ /\ (state.isLoading /\ ~state'.isLoading) =>
           /\ last'.op = "hydrate"
           /\ state'.isAuthenticated <=>
                /\ last'.outcome = "read"
                /\ storage[AUTH_TOKEN_KEY] # Absent
                /\ storage[USER_DATA_KEY] # Absent
           /\ state'.isAuthenticated =>
                /\ Text(state'.token) = storage[AUTH_TOKEN_KEY]
                /\ Stringify(state'.user) = storage[USER_DATA_KEY]
           /\ ~state'.isAuthenticated => state' = AnonymousState
      /\ (~state.isLoading /\ state'.isLoading) => last'.op = "restart"
    ]_vars

\* Hydration found a token without a user (a login whose user write failed)
\* and went anonymous.
C4_Witness ==
  /\ last.op = "hydrate"
  /\ last.outcome = "read"
  /\ storage[AUTH_TOKEN_KEY] # Absent
  /\ storage[USER_DATA_KEY] = Absent
  /\ state = AnonymousState

\* C5: when the login request comes back non-2xx or fails on the network,
\* login() returns {success: false, error} (the error the form then shows)
\* and neither the session nor the store changes: the session was anonymous
\* and stays anonymous.
C5_FailedLoginChangesNothing ==
  [][ (login.pc = "fetching" /\ last'.op = "login" /\ last'.resp # "ok") =>
        /\ last'.outcome = "failure"
        /\ last'.error \in (ServerMessages \ {Null}) \cup {LOGIN_FAILED, CONNECT_ERROR}
        /\ formError' = last'.error
        /\ state' = state
        /\ state' = AnonymousState
        /\ storage' = storage
    ]_vars

\* A rejected login, with a token in the store that it left alone.
C5_Witness ==
  /\ last.op = "login"
  /\ last.resp = "non2xx"
  /\ last.outcome = "failure"
  /\ formError = "Invalid email or password"
  /\ storage[AUTH_TOKEN_KEY] # Absent
  /\ state = AnonymousState

\* C6: when logout() has completed the session is anonymous and the store
\* holds neither token nor user; they stay absent until the next login, so a
\* restart hydrates to anonymous.
C6_LogoutClearsSession ==
  /\ (last.op = "logout" /\ last.outcome = "success") =>
       /\ state = AnonymousState
       /\ storage[AUTH_TOKEN_KEY] = Absent
       /\ storage[USER_DATA_KEY] = Absent
  /\ trail.stage \in {"logout", "logout-restart", "logout-restart-hydrate"} =>
       /\ storage[AUTH_TOKEN_KEY] = Absent
       /\ storage[USER_DATA_KEY] = Absent
  /\ trail.stage = "logout-restart-hydrate" => state = AnonymousState

\* Hydration after a logout and a restart has run.
C6_Witness ==
  /\ trail.stage = "logout-restart-hydrate"
  /\ last.op = "hydrate"
  /\ last.outcome = "read"
  /\ state = AnonymousState

\* C7: a 401 handled by makeRequest leaves the in-memory session as it was;
\* an authenticated session stops being authenticated only when logout()
\* completes (or the app is restarted).
C7_UnauthorizedLeavesSession ==
  [][ /\ (last'.op = "call" /\ last'.resp = "401") => state' = state
      /\ (state.isAuthenticated /\ ~state'.isAuthenticated) =>
           \/ last'.op = "logout" /\ last'.outcome = "success"
           \/ last'.op = "restart"
    ]_vars

\* A 401 has purged the store under a session that is still authenticated.
C7_Witness ==
  /\ last.op = "call"
  /\ last.resp = "401"
  /\ last.outcome = "AuthExpired"
  /\ storage[AUTH_TOKEN_KEY] = Absent
  /\ storage[USER_DATA_KEY] = Absent
  /\ state.isAuthenticated
  /\ state.token # Null

-----------------------------------------------------------------------------
(* Properties of the API client                                            *)

\* C2: every call during an active session that the backend answers with 401
\* (and whose clearAuth removals go through) has removed the stored token,
\* user and cached subscription status and fails with AuthExpired, be it an
\* endpoint function built on makeRequest or markVideoViewed.
C2_UnauthorizedPurgesAndThrows ==
  (last.op \in {"call", "markVideoViewed"} /\ last.resp = "401"
     /\ last.outcome # "StorageError") =>
    /\ last.outcome = "AuthExpired"
    /\ storage[AUTH_TOKEN_KEY] = Absent
    /\ storage[USER_DATA_KEY] = Absent
    /\ storage[SUBSCRIPTION_KEY] = Absent

\* C10: the stored viewed set only grows: no step of any interleaving of
\* markVideoViewed calls (with every read of the set succeeding) removes an
\* id that was in the stored set.
C10_ViewedSetOnlyGrows ==
  [][ (\A slot \in MarkSlots : marks[slot].readOk) =>
        StoredViewed \subseteq StoredViewed' ]_vars

\* C8: an authentication failure is never absorbed: when a fetch of
\* getContentByCategories ended with AuthExpired, the aggregation fails with
\* AuthExpired, and when the request of checkSubscription ended with
\* AuthExpired, checkSubscription fails with AuthExpired.
C8_AuthFailurePropagates ==
  /\ (home.pc = "done" /\ \E f \in Fetches : home.fetch[f].outcome = "AuthExpired")
       => home.outcome = "AuthExpired"
  /\ (last.op = "call" /\ last.fn = "checkSubscription"
         /\ last.error = "AuthExpired")
       => last.outcome = "AuthExpired"

\* C9: getContentByCategories survives a failing sub-fetch.  When the
\* document fetch failed, the aggregation resolves and every item of the
\* listing is in the video section of its category; when the category fetch
\* failed, the aggregation resolves and every item of the listing is in the
\* video section of its category, which is named formatCategoryName of the
\* category id.
C9_AggregationSurvivesFailingFetch ==
  LET listing == OrEmpty(home.fetch["videos"])
      InSection(item, formatted) ==
        \E k \in DOMAIN home.sections :
          /\ home.sections[k].id = <<"content-", CategoryKey(item)>>
          /\ home.sections[k].type = "video"
          /\ \E j \in DOMAIN home.sections[k].items :
               home.sections[k].items[j].id = item.id
          /\ formatted =>
               home.sections[k].name = formatCategoryName(CategoryKey(item))
  IN home.pc = "done" =>
       /\ home.fetch["documents"].outcome # "ok" =>
            /\ home.outcome = "ok"
            /\ \A i \in DOMAIN listing : InSection(listing[i], FALSE)
       /\ home.fetch["categories"].outcome # "ok" =>
            /\ home.outcome = "ok"
            /\ \A i \in DOMAIN listing : InSection(listing[i], TRUE)

\* An aggregation whose document fetch and category fetch both failed, over
\* a listing of a "bed-time" item and an item without category: it returned
\* the sections "Bed Time" and "Uncategorized".
C9_Witness ==
  /\ home.pc = "done"
  /\ home.fetch["documents"].outcome = "Error"
  /\ home.fetch["categories"].outcome = "AuthExpired"
  /\ home.fetch["videos"].outcome = "ok"
  /\ Len(home.fetch["videos"].data) = 2
  /\ home.fetch["videos"].data[1].categoryId = BedTime
  /\ home.fetch["videos"].data[2].categoryId = NoString
  /\ Len(home.sections) = 2
  /\ home.sections[1].name = <<"B", "e", "d", " ", "T", "i", "m", "e">>
  /\ home.sections[2].name =
       <<"U", "n", "c", "a", "t", "e", "g", "o", "r", "i", "z", "e", "d">>

\* C11: once markVideoViewed(id) has completed, an aggregation that starts
\* later reports isNew = false for the item with that id, whatever its age,
\* the server's viewed flag and the answer to the mark-viewed request (no
\* read or write of the viewed set having failed).
C11_MarkedItemsAreNeverNew ==
  (home.pc = "done" /\ ~faulted) =>
    \A k \in DOMAIN home.sections :
      home.sections[k].type = "video" =>
        \A j \in DOMAIN home.sections[k].items :
          home.sections[k].items[j].id \in marked =>
            ~home.sections[k].items[j].isNew

\* C12: isVideoNew(video, locallyViewed, now) is true exactly when the item
\* has a creation time, neither the server's viewed flag nor the local
\* viewed set marks it viewed, and now - createdAt < 24h; it is false for
\* every item created 24h ago or earlier.
C12_IsVideoNewExact ==
  calc.fn = "isVideoNew" =>
    LET video == calc.args[1]
        locallyViewed == calc.args[2]
        now == calc.args[3]
    IN /\ calc.result[1] <=>
            /\ video.createdAt # <<>>
            /\ ~video.viewed
            /\ ~locallyViewed
            /\ now - video.createdAt[1] < 24
       /\ (video.createdAt # <<>> /\ now - video.createdAt[1] >= 24)
            => ~calc.result[1]

\* isVideoNew answered true for an unviewed item created 23 hours ago.
C12_Witness ==
  /\ calc.fn = "isVideoNew"
  /\ calc.result[1]
  /\ calc.args[3] - calc.args[1].createdAt[1] = 23

\* A text is already formatted when it has no separator, does not start with
\* a lower-case letter and has no upper-case letter after its first
\* character.
AlreadyFormatted(text) ==
  /\ \A i \in DOMAIN text : text[i] \notin {"-", "_"}
  /\ text # <<>> => toUpperCaseChar(text[1]) = text[1]
  /\ \A i \in DOMAIN text : i > 1 => toLowerCaseChar(text[i]) = text[i]

\* C16: formatCategoryName returns an already formatted text unchanged, and
\* returns unchanged every text it has itself produced.
C16_FormatCategoryNameIdempotent ==
  calc.fn = "formatCategoryName" =>
    /\ AlreadyFormatted(calc.args[1]) => calc.result[1] = calc.args[1]
    /\ formatCategoryName(calc.result[1]) = calc.result[1]

\* C17: checkSubscription never throws; when its request and its cache write
\* succeed it returns the server's status, which is then the cached one;
\* when its request fails (not by a 401, which empties the cache) and a
\* status is cached, it returns the cached status; after a failed check the
\* HomeScreen does not treat the user as inactive.
C17_SubscriptionCheckFailsOpen ==
  (last.op = "call" /\ last.fn = "checkSubscription") =>
    /\ last.outcome = "ok"
    /\ last.error = "ok" =>
         /\ home.subscription[1] \in SubscriptionStatuses
         /\ storage[SUBSCRIPTION_KEY] = Stringify(home.subscription[1])
    /\ (last.error \in {"RequestFailed", "NetworkError"}
          /\ storage[SUBSCRIPTION_KEY] # Absent) =>
         home.subscription = <<Parse(storage[SUBSCRIPTION_KEY])>>
    /\ last.error # "ok" => ~isSubscriptionInactive(home.subscription)

-----------------------------------------------------------------------------
(* Properties of getContentByCategories                                    *)

\* The listing an aggregation worked on, the id of the category section an
\* item belongs to, and the places <<k, j>> where an id occurs in the
\* category sections.
Listing == OrEmpty(home.fetch["videos"])
SectionIdOf(item) ==
  <<"content-", IF item.categoryId = NoString THEN UNCATEGORIZED
                ELSE item.categoryId>>
CategorySections == {k \in DOMAIN home.sections : home.sections[k].type = "video"}
PlacesOf(id) ==
  {<<k, j>> \in CategorySections \X (1..MaxListing + 1) :
     /\ j \in DOMAIN home.sections[k].items
     /\ home.sections[k].items[j].id = id}

\* C13: every item of the listing is at exactly one place of the category
\* sections, in the section keyed by its categoryId ("uncategorized" without
\* one); no two category sections have the same key, none is empty, none
\* holds an item that is not in the listing, and the items of a section are
\* in listing order.
C13_ListingIsPartitioned ==
  home.pc = "done" =>
    /\ \A i \in DOMAIN Listing :
         /\ Cardinality(PlacesOf(Listing[i].id)) = 1
         /\ \A place \in PlacesOf(Listing[i].id) :
              home.sections[place[1]].id = SectionIdOf(Listing[i])
    /\ \A k1, k2 \in CategorySections :
         home.sections[k1].id = home.sections[k2].id => k1 = k2
    /\ \A k \in CategorySections :
         /\ Len(home.sections[k].items) > 0
         /\ \A j \in DOMAIN home.sections[k].items :
              \E i \in DOMAIN Listing :
                Listing[i].id = home.sections[k].items[j].id
         /\ \A j1, j2 \in DOMAIN home.sections[k].items :
              j1 < j2 =>
                \E i1, i2 \in DOMAIN Listing :
                  /\ i1 < i2
                  /\ Listing[i1].id = home.sections[k].items[j1].id
                  /\ Listing[i2].id = home.sections[k].items[j2].id

\* An aggregation over an item without category followed by a "bed-time"
\* item: two sections of one item each, "uncategorized" first.
C13_Witness ==
  /\ home.pc = "done"
  /\ Len(Listing) = 2
  /\ Listing[1].categoryId = NoString
  /\ Listing[2].categoryId = BedTime
  /\ Cardinality(CategorySections) = 2
  /\ home.sections[1].id = <<"content-", UNCATEGORIZED>>
  /\ home.sections[1].items[1].id = Listing[1].id
  /\ home.sections[2].items[1].id = Listing[2].id

\* Where the category of a category section first occurs in the listing.
FirstOccurrence(k) ==
  CHOOSE i \in DOMAIN Listing :
    /\ SectionIdOf(Listing[i]) = home.sections[k].id
    /\ \A h \in DOMAIN Listing :
         SectionIdOf(Listing[h]) = home.sections[k].id => i <= h

C15_AudioTypeAndNoThumbnail ==
  home.pc = "done" =>
    \A i \in DOMAIN Listing :
      \A place \in PlacesOf(Listing[i].id) :
        LET item == home.sections[place[1]].items[place[2]]
        IN /\ item.type = IF Listing[i].mediaType = "audio" THEN "audio"
                          ELSE "video"
           /\ item.type = "audio" =>
                /\ item.thumbnailUrl = <<>>
                /\ ~item.thumbnailRequiresAuth

\* ---------------------------------------------------------------------------
\* ContentPlayerScreen showing an audio item: the expo-av sessions it creates
\* (src/client/screens/ContentPlayerScreen.tsx).
\* ---------------------------------------------------------------------------

\* The playback speeds offered, in hundredths (1.0 and 2.0 of playbackSpeeds).
playbackSpeeds == {100, 200}

\* The play taps that may start a session while none is held are capped.
MaxSounds == 2

\* The progress-bar widths onLayout reports and the durations a status
\* callback reports (durationMillis || 0 is never negative).
MaxWidth == 4
MaxDuration == 5
Widths == {0, MaxWidth}
Durations == {0, MaxDuration}

\* A touch's horizontal offsets: <<>> where the platform does not supply the
\* field, else <<x>>; x ranges past both ends of the bar.
Offsets == {<<x>> : x \in -1 .. MaxWidth + 1}
SeekEvents ==
  {[locationX |-> x, offsetX |-> <<>>] : x \in Offsets}
    \cup {[locationX |-> <<>>, offsetX |-> x] : x \in Offsets \cup {<<>>}}

\* sound.unloadAsync() on session `id` (nothing when the state holds null).
unloadAsync(all, id) ==
  IF id = 0 THEN all ELSE [all EXCEPT ![id].loaded = FALSE]

\* The auto-play effect, run after a render in which audioStreamUrl or
\* authToken changed: it starts loadAndPlayAudio, whose createAsync call
\* captures the playback rate of that render.
AutoPlayEffect(p) ==
  IF p.itemType = "audio" /\ p.audioStreamUrl /\ p.sound = 0 /\ p.authToken
    THEN [p EXCEPT !.loads = Append(@, p.playbackRate)]
    ELSE p

\* The stream effect without its markVideoViewed call.
MarkViewedSkipped(p) == p

\* api.markVideoViewed(item.id), issued by the stream effect before it asks
\* for the stream URL.
MarkViewedOnEntry(p) == [p EXCEPT !.markCalls = @ + 1]

\* The screen is entered with an audio item: the mount effects read the token,
\* issue markVideoViewed and ask for the stream URL.
OpenPlayer ==
  /\ player.screen = "closed"
  /\ player' = MarkViewedOnEntry([player EXCEPT !.screen = "open",
                                                 !.itemType = "audio",
                                                 !.tokenRead = "pending",
                                                 !.stream = "pending"])
  /\ UNCHANGED <<appVars, calc, sounds, zoom>>

\* getDocumentPageUrl: the base URL, the document's id and the page number.
getDocumentPageUrl(documentId, pageNumber) ==
  <<"https://onetimeonetime.com", "/api/documents/", documentId, "/page/",
    pageNumber>>

\* The loop of the document pages effect counting from 0, so that the list
\* starts with a page 0 and misses the last page.
PageNumbersFromZero(pageCount) == [i \in 1 .. pageCount |-> i - 1]

\* for (let i = 1; i <= item.pageCount; i++): the page numbers pushed.
PageNumbers(pageCount) == [i \in 1 .. pageCount |-> i]

\* The document pages effect, run after a render in which authToken changed:
\* for a document with a truthy pageCount and a token it synthesizes the page
\* URLs and ends loading; the FlatList then renders one ZoomableImage per page.
DocumentPagesEffect(p, variant) ==
  IF p.itemType = "document" /\ p.pageCount # <<>> /\ p.pageCount[1] # 0
       /\ p.authToken
    THEN LET numbers == PageNumbers(p.pageCount[1])
         IN [p EXCEPT
               !.documentPages = [i \in DOMAIN numbers |->
                                    getDocumentPageUrl("d1", numbers[i])],
               !.isLoading = FALSE,
               !.pageZooms = [i \in DOMAIN numbers |->
                                [NoZoom EXCEPT !.variant = variant]]]
    ELSE p

\* AsyncStorage.getItem(AUTH_TOKEN_KEY).then(setAuthToken).
TokenLoaded ==
  /\ player.tokenRead = "pending"
  /\ LET token == getItem(storage, AUTH_TOKEN_KEY)
         set == [player EXCEPT !.tokenRead = "done", !.authToken = token # Null]
     IN player' = IF player.screen = "open"
                    THEN DocumentPagesEffect(AutoPlayEffect(set), zoom.variant)
                    ELSE [player EXCEPT !.tokenRead = "done"]
  /\ UNCHANGED <<appVars, calc, sounds, zoom>>

\* What getStreamUrl may settle with: a failure, or a response. For an audio
\* item only the presence of a response matters (a URL is always set, the
\* response's or the fallback); for a video the response may name a Vimeo
\* video and may carry an embed URL, from which an HLS URL is derivable or not.
NoResponse == [ok |-> FALSE, vimeo |-> FALSE, vimeoVideoId |-> FALSE, embedUrl |-> <<>>]
EmbedUrls == {<<>>, <<"embed", "hls">>, <<"embed", "none">>}
StreamResponses(itemType) ==
  IF itemType = "video"
    THEN {NoResponse} \cup
         {[ok |-> TRUE, vimeo |-> v, vimeoVideoId |-> id, embedUrl |-> e] :
            v \in BOOLEAN, id \in BOOLEAN, e \in EmbedUrls}
    ELSE {NoResponse, [NoResponse EXCEPT !.ok = TRUE]}

\* api.extractHlsUrl(embedUrl): the HLS URL when one is derivable, else null.
extractHlsUrl(embedUrl) ==
  IF embedUrl[2] = "hls" THEN <<"playlist">> ELSE <<>>

\* The video branch of the stream effect preferring the embed URL: the HLS
\* URL is never extracted.
videoStreamEmbedOnly(p, response) ==
  IF response.vimeo /\ response.vimeoVideoId
    THEN [p EXCEPT !.vimeoVideoId = TRUE]
  ELSE IF response.embedUrl # <<>>
    THEN [p EXCEPT !.videoEmbedUrl = TRUE]
  ELSE [p EXCEPT !.videoError = TRUE]

\* The video branch of the stream effect's then().
videoStream(p, response) ==
  IF response.vimeo /\ response.vimeoVideoId
    THEN [p EXCEPT !.vimeoVideoId = TRUE]
  ELSE IF response.embedUrl # <<>>
    THEN [p EXCEPT !.videoEmbedUrl = TRUE,
                   !.videoHlsUrl = extractHlsUrl(response.embedUrl) # <<>>]
  ELSE [p EXCEPT !.videoError = TRUE]

\* The stream effect's then() and catch().
streamSettled(p, response) ==
  LET done == [p EXCEPT !.stream = "done", !.isLoading = FALSE,
                        !.response = <<response>>]
  IN IF ~response.ok THEN [done EXCEPT !.videoError = TRUE]
     ELSE IF p.itemType = "audio"
       THEN AutoPlayEffect([done EXCEPT !.audioStreamUrl = TRUE])
     ELSE videoStream(done, response)

\* getStreamUrl settles.
StreamResolved ==
  /\ player.stream = "pending"
  /\ \E response \in StreamResponses(player.itemType) :
       player' = IF player.screen # "open"
                   THEN [player EXCEPT !.stream = "done"]
                   ELSE streamSettled(player, response)
  /\ UNCHANGED <<appVars, calc, sounds, zoom>>

\* handleAudioPlayPause.
PlayPauseTap ==
  /\ player.screen = "open"
  /\ player.audioStreamUrl
  /\ IF player.sound = 0
       THEN /\ Len(player.loads) + Len(sounds) < MaxSounds
            /\ player' = [player EXCEPT !.loads = Append(@, player.playbackRate)]
            /\ UNCHANGED sounds
       ELSE /\ sounds[player.sound].loaded
            /\ sounds' = [sounds EXCEPT ![player.sound].isPlaying = ~player.isPlaying,
                                        ![player.sound].ended =
                                          @ /\ player.isPlaying]
            /\ player' = [player EXCEPT !.isPlaying = ~player.isPlaying]
  /\ UNCHANGED <<appVars, calc, zoom>>

\* An Audio.Sound.createAsync call settles. On success the session exists,
\* loaded and playing at the captured rate; setSound and setIsPlaying follow,
\* which do nothing once the screen is unmounted. Replacing the session held
\* in state runs the [sound] effect's cleanup on the previous one.
LoadResolve ==
  \E i \in 1 .. Len(player.loads), ok \in BOOLEAN :
    LET rest == [j \in 1 .. Len(player.loads) - 1 |->
                   IF j < i THEN player.loads[j] ELSE player.loads[j + 1]]
        id == Len(sounds) + 1
        created == Append(sounds, [loaded |-> TRUE, rate |-> player.loads[i],
                                   isPlaying |-> TRUE, ended |-> FALSE])
    IN /\ IF ~ok
            THEN /\ player' = [player EXCEPT !.loads = rest]
                 /\ UNCHANGED sounds
            ELSE IF player.screen = "open"
              THEN /\ sounds' = unloadAsync(created, player.sound)
                   /\ player' = [player EXCEPT !.loads = rest, !.sound = id,
                                                !.isPlaying = TRUE]
              ELSE /\ sounds' = created
                   /\ player' = [player EXCEPT !.loads = rest]
       /\ UNCHANGED <<appVars, calc, zoom>>

\* The statuses a playing session hands to its callback: expo-av calls it at
\* intervals while the session plays and once, with didJustFinish, when it
\* reaches the end (where some platforms still report isPlaying). The status
\* that follows pauseAsync, playAsync or setRateAsync repeats what the handler
\* that made the call sets itself.
Statuses ==
  {[isLoaded |-> TRUE, durationMillis |-> duration,
    positionMillis |-> IF atEnd THEN duration ELSE 0,
    isPlaying |-> isPlaying, didJustFinish |-> didJustFinish] :
     duration \in Durations, atEnd \in BOOLEAN, isPlaying \in BOOLEAN,
     didJustFinish \in BOOLEAN}

\* onAudioStatusUpdate without its didJustFinish branch.
onAudioStatusUpdateNoReset(p, status) ==
  IF ~status.isLoaded THEN p
  ELSE [p EXCEPT !.audioDuration = status.durationMillis,
                 !.audioPosition = status.positionMillis,
                 !.isPlaying = status.isPlaying]

\* onAudioStatusUpdate: the state after the handler's setState calls, the
\* later call to a setter winning.
onAudioStatusUpdate(p, status) ==
  IF ~status.isLoaded THEN p
  ELSE LET set == [p EXCEPT !.audioDuration = status.durationMillis,
                            !.audioPosition = status.positionMillis,
                            !.isPlaying = status.isPlaying]
       IN IF status.didJustFinish
            THEN [set EXCEPT !.isPlaying = FALSE, !.audioPosition = 0]
            ELSE set

\* A playing session calls onAudioStatusUpdate with its status.
StatusUpdate ==
  /\ player.screen = "open"
  /\ \E id \in 1 .. Len(sounds), status \in Statuses :
       /\ sounds[id].loaded /\ sounds[id].isPlaying
       /\ status.didJustFinish => status.positionMillis = status.durationMillis
       /\ ~status.didJustFinish => status.isPlaying
       /\ sounds' = IF status.didJustFinish
                      THEN [sounds EXCEPT ![id].isPlaying = FALSE,
                                          ![id].ended = TRUE]
                      ELSE sounds
       /\ player' = onAudioStatusUpdate(player, status)
  /\ UNCHANGED <<appVars, calc, zoom>>

\* The progress bar's onLayout.
Layout ==
  /\ player.screen = "open"
  /\ \E width \in Widths : player' = [player EXCEPT !.progressBarWidth = width]
  /\ UNCHANGED <<appVars, calc, sounds, zoom>>

\* handleSpeedChange.
SpeedChange ==
  /\ player.screen = "open"
  /\ \E speed \in playbackSpeeds :
       /\ player' = [player EXCEPT !.playbackRate = speed]
       /\ sounds' = IF player.sound # 0 /\ sounds[player.sound].loaded
                      THEN [sounds EXCEPT ![player.sound].rate = speed]
                      ELSE sounds
  /\ UNCHANGED <<appVars, calc, zoom>>

\* locationX / width without the clamp, as the numerator over `width`.
PercentageUnclamped(locationX, width) == locationX

\* Math.max(0, Math.min(1, locationX / width)), as the numerator over `width`.
Percentage(locationX, width) ==
  IF locationX < 0 THEN 0 ELSE IF locationX > width THEN width ELSE locationX

\* Math.round(n / d) for d > 0: the nearest integer, halves upwards.
Round(n, d) == (2 * n + d) \div (2 * d)

\* The position handleSeek asks the session for: <<>> when it returns early,
\* <<newPosition>> when it calls setPositionAsync.
handleSeek(event, sound, audioDuration, progressBarWidth) ==
  IF sound = 0 \/ audioDuration <= 0 THEN <<>>
  ELSE IF progressBarWidth <= 0 THEN <<>>
  ELSE LET locationX == IF event.locationX # <<>> THEN event.locationX
                        ELSE event.offsetX
       IN IF locationX = <<>> THEN <<>>
          ELSE LET newPosition ==
                     Round(Percentage(locationX[1], progressBarWidth) * audioDuration,
                           progressBarWidth)
               IN IF newPosition < 0 THEN <<>> ELSE <<newPosition>>

\* The progress bar is pressed.
Seek ==
  /\ player.screen = "open"
  /\ \E event \in SeekEvents :
       calc' = [fn |-> "handleSeek",
                args |-> <<event, player.sound, player.audioDuration,
                           player.progressBarWidth,
                           player.sound # 0 /\ sounds[player.sound].loaded>>,
                result |-> handleSeek(event, player.sound, player.audioDuration,
                                      player.progressBarWidth)]
  /\ UNCHANGED <<appVars, player, sounds, zoom>>

\* handleBack: unload the session held in state, then navigation.goBack(),
\* whose unmount runs the [sound] effect's cleanup.
HandleBack ==
  /\ player.screen = "open"
  /\ sounds' = unloadAsync(unloadAsync(sounds, player.sound), player.sound)
  /\ player' = [player EXCEPT !.screen = "left", !.left = "handleBack"]
  /\ UNCHANGED <<appVars, calc, zoom>>

\* Any other navigation away (hardware back, swipe): only the unmount's
\* cleanup runs.
Unmount ==
  /\ player.screen = "open"
  /\ sounds' = unloadAsync(sounds, player.sound)
  /\ player' = [player EXCEPT !.screen = "left", !.left = "unmount"]
  /\ UNCHANGED <<appVars, calc, zoom>>

\* The screen is opened from the home screen of a logged-in user; the stored
\* token may have been purged by a 401 in the meantime.
InitPlayer ==
  /\ storage \in {LoggedInStorage,
                  [LoggedInStorage EXCEPT ![AUTH_TOKEN_KEY] = Absent]}
  /\ state = AuthenticatedState("u1", "t1")
  /\ login = Idle
  /\ logout = "idle"
  /\ call = NoCall
  /\ marks = [slot \in MarkSlots |-> NoMark]
  /\ formError = ""
  /\ home = NoHome
  /\ marked = {}
  /\ faulted = FALSE
  /\ calc = NoCalc
  /\ player = NoPlayer
  /\ sounds = <<>>
  /\ zoom = NoZoom
  /\ last = NoLast
  /\ trail = NoTrail

\* The sessions of one visit to the screen. Seeking and the bar's layout touch
\* no session and no state the other handlers read; they are followed in
\* SpecSeek.
NextPlayer ==
  \/ OpenPlayer
  \/ TokenLoaded
  \/ StreamResolved
  \/ PlayPauseTap
  \/ LoadResolve
  \/ StatusUpdate
  \/ SpeedChange
  \/ HandleBack
  \/ Unmount

SpecPlayer == InitPlayer /\ [][NextPlayer]_vars

\* Seeking in the session the screen has loaded.
NextSeek ==
  \/ OpenPlayer
  \/ TokenLoaded
  \/ StreamResolved
  \/ LoadResolve
  \/ StatusUpdate
  \/ Layout
  \/ Seek

SpecSeek == InitPlayer /\ [][NextSeek]_vars

\* C18: once the player screen has been left, by the back button or by any
\* other navigation away, no audio session created by that screen is loaded.
C18_NoSessionSurvivesExit ==
  player.screen = "left" => \A id \in 1 .. Len(sounds) : ~sounds[id].loaded

\* The touch offset handleSeek works with: locationX, else offsetX.
TouchOffset(event) ==
  IF event.locationX # <<>> THEN event.locationX ELSE event.offsetX

\* C19: audio seek is clamped. Whatever the touch offset x, below 0 and beyond
\* the bar's width included, the position asked of the session is the integer
\* nearest to clamp(x / width, 0, 1) * duration (halves upwards) and so lies in
\* [0, duration]; nothing is asked when no session is loaded, when the
\* duration is not positive or when the bar's width is not positive.
C19_SeekIsClamped ==
  calc.fn = "handleSeek" =>
    LET x == TouchOffset(calc.args[1])
        duration == calc.args[3]
        width == calc.args[4]
        loaded == calc.args[5]
        requested == calc.result
    IN /\ (~loaded \/ duration <= 0 \/ width <= 0) => requested = <<>>
       /\ requested # <<>> => requested[1] >= 0 /\ requested[1] <= duration
       /\ (loaded /\ duration > 0 /\ width > 0 /\ x # <<>>) =>
            /\ requested # <<>>
            /\ LET clamped == IF x[1] < 0 THEN 0
                              ELSE IF x[1] > width THEN width ELSE x[1]
                   p == requested[1]
               IN /\ 2 * width * p - width <= 2 * clamped * duration
                  /\ 2 * clamped * duration < 2 * width * p + width

\* A touch beyond the right end of the bar asks for exactly the duration.
C19_Witness ==
  /\ calc.fn = "handleSeek"
  /\ calc.args[5]
  /\ calc.args[4] > 0
  /\ TouchOffset(calc.args[1]) # <<>>
  /\ TouchOffset(calc.args[1])[1] > calc.args[4]
  /\ calc.args[3] > 0
  /\ calc.result = <<calc.args[3]>>

\* ---------------------------------------------------------------------------
\* ZoomableImage: pinch, pan and double-tap on a document page
\* (src/client/components/ZoomableImage.tsx). Scales are in hundredths.
\* ---------------------------------------------------------------------------

MinScale == 100
MaxScale == 400

\* The scale a double-tap zooms to: 2 in the inline component, 2.5 in the
\* one that opens a fullscreen modal.
DoubleTapScale(variant) == IF variant = "inline" THEN 200 ELSE 250

\* The pinch factors tried (event.scale, in hundredths): 0.5, 1.05 and 5.
PinchScales == {50, 105, 500}

\* Pan translations <<translationX, translationY>> are tried along one
\* diagonal up to MaxPan, and the image is followed while its translation
\* stays within MaxPan on each axis.
MaxPan == 1
Pans == (-MaxPan) .. MaxPan
PanTranslations == {<<t, -t>> : t \in Pans}

\* The pinch update without its clamp.
Unclamped(value) == value

\* Math.min(Math.max(value, 1), 4).
ClampScale(value) ==
  IF value < MinScale THEN MinScale
  ELSE IF value > MaxScale THEN MaxScale ELSE value

\* resetZoom (written out in the inline component): the scale and the
\* translation animate back to 1 and (0, 0), the saved values are set at once.
resetZoom(z) ==
  [z EXCEPT !.scaleTo = <<MinScale>>, !.savedScale = MinScale,
            !.translateTo = <<0>>, !.midway = FALSE,
            !.savedTranslateX = 0, !.savedTranslateY = 0]

\* Whether the gesture detector is on screen: always for the inline
\* component, only inside the open modal for the fullscreen one.
DetectorShown == zoom.variant = "inline" \/ zoom.isFullscreen

PinchBegin ==
  /\ DetectorShown
  /\ ~zoom.pinching
  /\ zoom' = [zoom EXCEPT !.pinching = TRUE]
  /\ UNCHANGED <<appVars, calc, player, sounds>>

\* pinchGesture.onUpdate: the assignment ends a running scale animation.
PinchUpdate ==
  /\ zoom.pinching
  /\ \E eventScale \in PinchScales :
       zoom' = [zoom EXCEPT
                  !.scale = ClampScale((zoom.savedScale * eventScale) \div 100),
                  !.scaleTo = <<>>]
  /\ UNCHANGED <<appVars, calc, player, sounds>>

\* pinchGesture.onEnd.
PinchEnd ==
  /\ zoom.pinching
  /\ LET ended == [zoom EXCEPT !.pinching = FALSE, !.savedScale = zoom.scale]
     IN zoom' = IF zoom.scale <= MinScale THEN resetZoom(ended) ELSE ended
  /\ UNCHANGED <<appVars, calc, player, sounds>>

PanBegin ==
  /\ DetectorShown
  /\ ~zoom.panning
  /\ zoom' = [zoom EXCEPT !.panning = TRUE]
  /\ UNCHANGED <<appVars, calc, player, sounds>>

\* panGesture.onUpdate.
PanUpdate ==
  /\ zoom.panning
  /\ \E translation \in PanTranslations :
       /\ zoom.savedTranslateX + translation[1] \in Pans
       /\ zoom.savedTranslateY + translation[2] \in Pans
       /\ zoom' = IF zoom.scale > MinScale
                    THEN [zoom EXCEPT
                            !.translateX = zoom.savedTranslateX + translation[1],
                            !.translateY = zoom.savedTranslateY + translation[2],
                            !.translateTo = <<>>]
                    ELSE zoom
  /\ UNCHANGED <<appVars, calc, player, sounds>>

\* panGesture.onEnd.
PanEnd ==
  /\ zoom.panning
  /\ zoom' = [zoom EXCEPT !.panning = FALSE,
                          !.savedTranslateX = zoom.translateX,
                          !.savedTranslateY = zoom.translateY]
  /\ UNCHANGED <<appVars, calc, player, sounds>>

\* doubleTapGesture.onEnd; the tap races with the pan, so it is not
\* recognised while a pan is in progress.
DoubleTap ==
  /\ DetectorShown
  /\ ~zoom.panning
  /\ zoom' = IF zoom.scale > MinScale
               THEN resetZoom(zoom)
               ELSE [zoom EXCEPT !.scaleTo = <<DoubleTapScale(zoom.variant)>>,
                                 !.savedScale = DoubleTapScale(zoom.variant),
                                 !.midway = FALSE]
  /\ UNCHANGED <<appVars, calc, player, sounds>>

\* A frame of the withTiming animations: each animated value is shown once
\* in the middle of the way to its target, then arrives; a frame may also
\* arrive at once.
AnimationFrame ==
  /\ zoom.scaleTo # <<>> \/ zoom.translateTo # <<>>
  /\ \E arrive \in BOOLEAN :
       LET towards(value, to) ==
             IF to = <<>> THEN value
             ELSE IF arrive \/ zoom.midway THEN to[1] ELSE (value + to[1]) \div 2
           settled(to) == IF arrive \/ zoom.midway THEN <<>> ELSE to
       IN zoom' = [zoom EXCEPT
                     !.scale = towards(zoom.scale, zoom.scaleTo),
                     !.translateX = towards(zoom.translateX, zoom.translateTo),
                     !.translateY = towards(zoom.translateY, zoom.translateTo),
                     !.scaleTo = settled(zoom.scaleTo),
                     !.translateTo = settled(zoom.translateTo),
                     !.midway = ~(arrive \/ zoom.midway)]
  /\ UNCHANGED <<appVars, calc, player, sounds>>

\* openFullscreen (fullscreen component only).
OpenFullscreen ==
  /\ zoom.variant = "fullscreen"
  /\ ~zoom.isFullscreen
  /\ zoom' = [zoom EXCEPT !.isFullscreen = TRUE]
  /\ UNCHANGED <<appVars, calc, player, sounds>>

\* closeFullscreen: resetZoom, then the modal is hidden.
CloseFullscreen ==
  /\ zoom.variant = "fullscreen"
  /\ zoom.isFullscreen
  /\ zoom' = [resetZoom(zoom) EXCEPT !.isFullscreen = FALSE]
  /\ UNCHANGED <<appVars, calc, player, sounds>>

\* A document page is shown by either component.
InitZoom ==
  /\ storage = LoggedInStorage
  /\ state = AuthenticatedState("u1", "t1")
  /\ login = Idle
  /\ logout = "idle"
  /\ call = NoCall
  /\ marks = [slot \in MarkSlots |-> NoMark]
  /\ formError = ""
  /\ home = NoHome
  /\ marked = {}
  /\ faulted = FALSE
  /\ calc = NoCalc
  /\ player = NoPlayer
  /\ sounds = <<>>
  /\ zoom \in {[NoZoom EXCEPT !.variant = v] : v \in {"inline", "fullscreen"}}
  /\ last = NoLast
  /\ trail = NoTrail

NextZoom ==
  \/ PinchBegin
  \/ PinchUpdate
  \/ PinchEnd
  \/ PanBegin
  \/ PanUpdate
  \/ PanEnd
  \/ DoubleTap
  \/ AnimationFrame
  \/ OpenFullscreen
  \/ CloseFullscreen

SpecZoom == InitZoom /\ [][NextZoom]_vars

\* C20: in every reachable state the zoom scale of a page is within [1, 4],
\* after any sequence of pinch updates, pinch releases, pans and double-taps.
C20_ScaleWithinBounds ==
  zoom.scale >= MinScale /\ zoom.scale <= MaxScale

\* A pinch that would take the scale beyond 4 (2.5 times 5) leaves it at
\* exactly 4.
C20_Witness ==
  /\ zoom.pinching
  /\ zoom.savedScale = 250
  /\ zoom.scale = MaxScale

\* C21: releasing a pinch while the scale is below 1.1 resets the scale to
\* exactly 1 and the translation to (0, 0): the saved values are reset and the
\* shown values animate to them.
C21_PinchReleaseBelowThresholdResets ==
  [][(zoom.pinching /\ ~zoom'.pinching /\ zoom.scale < 110) =>
       /\ zoom'.savedScale = MinScale
       /\ zoom'.scaleTo = <<MinScale>>
       /\ zoom'.savedTranslateX = 0
       /\ zoom'.savedTranslateY = 0
       /\ zoom'.translateTo = <<0>>]_vars

\* ---------------------------------------------------------------------------
\* ContentPlayerScreen showing a document item: the page list and its pager
\* (src/client/screens/ContentPlayerScreen.tsx).
\* ---------------------------------------------------------------------------

\* The page counts tried: none, 0 and 1 .. MaxPages.
MaxPages == 2
PageCounts == {<<>>} \cup {<<n>> : n \in 0 .. MaxPages}

\* The screen is entered with a document item: the mount effects read the
\* token; the stream effect does nothing for a document and the pages effect
\* finds no token yet.
OpenDocument ==
  /\ player.screen = "closed"
  /\ \E pageCount \in PageCounts :
       player' = [player EXCEPT !.screen = "open", !.itemType = "document",
                                !.pageCount = pageCount,
                                !.tokenRead = "pending"]
  /\ UNCHANGED <<appVars, calc, sounds, zoom>>

\* renderDocumentViewer shows the spinner instead of the pages.
DocumentLoadingShown == player.isLoading \/ player.documentPages = <<>>

\* The pager is on screen.
DocumentShown ==
  /\ player.screen = "open"
  /\ player.itemType = "document"
  /\ ~DocumentLoadingShown

\* The pager's own controls can be reached: no fullscreen modal covers them.
PagerReachable == DocumentShown /\ ~zoom.isFullscreen

\* setCurrentPageIndex(index) and the list coming to rest on that page. Every
\* page keeps its own ZoomableImage, whose props (uri, headers, style) do not
\* include the resetKey the screen passes.
ShowPage(index) ==
  /\ player' = [player EXCEPT
                  !.currentPageIndex = index,
                  !.pageZooms = [@ EXCEPT
                                   ![player.currentPageIndex + 1] = zoom,
                                   ![index + 1] = [NoZoom EXCEPT !.variant = zoom.variant]]]
  /\ zoom' = player.pageZooms[index + 1]
  /\ UNCHANGED <<appVars, calc, sounds>>

\* The FlatList's onScroll reaching another page.
ScrollToPage ==
  /\ PagerReachable
  /\ \E index \in 0 .. Len(player.documentPages) - 1 :
       /\ index # player.currentPageIndex
       /\ ShowPage(index)

\* The previous-page button.
PrevPage ==
  /\ PagerReachable
  /\ player.currentPageIndex > 0
  /\ ShowPage(player.currentPageIndex - 1)

\* The next-page button.
NextPage ==
  /\ PagerReachable
  /\ player.currentPageIndex < Len(player.documentPages) - 1
  /\ ShowPage(player.currentPageIndex + 1)

\* A logged-in user opens a document; the stored token may have been purged
\* by a 401 in the meantime. Either ZoomableImage component shows the pages.
InitDocument ==
  /\ storage \in {LoggedInStorage,
                  [LoggedInStorage EXCEPT ![AUTH_TOKEN_KEY] = Absent]}
  /\ state = AuthenticatedState("u1", "t1")
  /\ login = Idle
  /\ logout = "idle"
  /\ call = NoCall
  /\ marks = [slot \in MarkSlots |-> NoMark]
  /\ formError = ""
  /\ home = NoHome
  /\ marked = {}
  /\ faulted = FALSE
  /\ calc = NoCalc
  /\ player = NoPlayer
  /\ sounds = <<>>
  /\ zoom \in {[NoZoom EXCEPT !.variant = v] : v \in {"inline", "fullscreen"}}
  /\ last = NoLast
  /\ trail = NoTrail

NextDocument ==
  \/ OpenDocument
  \/ TokenLoaded
  \/ ScrollToPage
  \/ PrevPage
  \/ NextPage
  \/ DocumentShown /\ DoubleTap
  \/ DocumentShown /\ AnimationFrame
  \/ DocumentShown /\ OpenFullscreen
  \/ DocumentShown /\ CloseFullscreen
  \/ HandleBack
  \/ Unmount

SpecDocument == InitDocument /\ [][NextDocument]_vars

\* The scale and the translation the shown page is drawn with: the fullscreen
\* component transforms the image only inside its open modal.
ShownTransform ==
  IF zoom.variant = "fullscreen" /\ ~zoom.isFullscreen
    THEN <<MinScale, 0, 0>>
    ELSE <<zoom.scale, zoom.translateX, zoom.translateY>>

\* C22: zoom is local to a page and resets when the page index changes: after
\* the current page index has changed, by scrolling or by the previous / next
\* buttons, the page shown has scale 1 and translation (0, 0).
C22_PageChangeResetsZoom ==
  [][player'.currentPageIndex # player.currentPageIndex =>
       ShownTransform' = <<MinScale, 0, 0>>]_vars

\* C23: for a document with page count n the synthesized page list has
\* exactly n entries, the i-th being the URL of page i; with a token loaded
\* the list is synthesized for every n.
C23_PageListMatchesPageCount ==
  (player.screen = "open" /\ player.itemType = "document") =>
    LET n == IF player.pageCount = <<>> THEN 0 ELSE player.pageCount[1]
    IN /\ player.documentPages # <<>> =>
            /\ Len(player.documentPages) = n
            /\ \A i \in 1 .. n :
                 player.documentPages[i] = getDocumentPageUrl("d1", i)
       /\ player.authToken => Len(player.documentPages) = n

\* A document of MaxPages pages has its whole list synthesized.
C23_Witness ==
  /\ player.itemType = "document"
  /\ player.pageCount = <<MaxPages>>
  /\ Len(player.documentPages) = MaxPages

\* C28: every document opened in the player leaves the loading state,
\* whatever its pageCount and whether or not a token is stored: once the token
\* read, the only thing the viewer waits for, has settled, the spinner is gone.
C28_DocumentLeavesLoading ==
  (player.screen = "open" /\ player.itemType = "document"
     /\ player.tokenRead = "done") => ~DocumentLoadingShown

\* ---------------------------------------------------------------------------
\* ContentPlayerScreen showing a video item: the outcome of stream resolution
\* (src/client/screens/ContentPlayerScreen.tsx).
\* ---------------------------------------------------------------------------

\* The screen is entered with a video item: the mount effects read the token,
\* issue markVideoViewed and ask for the stream URL.
OpenVideo ==
  /\ player.screen = "closed"
  /\ player' = MarkViewedOnEntry([player EXCEPT !.screen = "open",
                                                 !.itemType = "video",
                                                 !.tokenRead = "pending",
                                                 !.stream = "pending"])
  /\ UNCHANGED <<appVars, calc, sounds, zoom>>

\* What renderVideoPlayer returns: the spinner, an error view, the Vimeo
\* player in a web view, the native HLS player, or the embed URL in a web view.
renderVideoPlayer(p) ==
  IF p.isLoading THEN "loading"
  ELSE IF p.videoError THEN "error"
  ELSE IF p.vimeoVideoId THEN "vimeo"
  ELSE IF p.videoHlsUrl THEN "hls"
  ELSE IF p.videoEmbedUrl THEN "embed"
  ELSE "error"

\* The Vimeo web view's onError.
WebViewError ==
  /\ player.screen = "open"
  /\ player.itemType = "video"
  /\ renderVideoPlayer(player) = "vimeo"
  /\ player' = [player EXCEPT !.videoError = TRUE]
  /\ UNCHANGED <<appVars, calc, sounds, zoom>>

\* One visit to the screen with a video or an audio item.
NextStream ==
  \/ OpenVideo
  \/ OpenPlayer
  \/ TokenLoaded
  \/ StreamResolved
  \/ LoadResolve
  \/ WebViewError
  \/ HandleBack
  \/ Unmount

SpecStream == InitPlayer /\ [][NextStream]_vars

\* C24: once stream resolution has completed for a video, the player has left
\* loading and shows exactly one outcome: native HLS playback whenever an HLS
\* URL is derivable from the response, otherwise a web-view embed player,
\* otherwise an error; an embed player is never shown when an HLS URL is
\* derivable.
C24_VideoOutcomeByPriority ==
  (player.screen = "open" /\ player.itemType = "video" /\ player.stream = "done") =>
    LET response == player.response[1]
        shown == renderVideoPlayer(player)
        derivable == /\ response.ok
                     /\ response.embedUrl # <<>>
                     /\ extractHlsUrl(response.embedUrl) # <<>>
        embeddable == /\ response.ok
                      /\ \/ response.vimeo /\ response.vimeoVideoId
                         \/ response.embedUrl # <<>>
    IN /\ shown # "loading"
       /\ derivable => shown = "hls"
       /\ (~derivable /\ embeddable) => shown \in {"vimeo", "embed", "error"}
       /\ (~derivable /\ ~embeddable) => shown = "error"

\* C25: markVideoViewed is issued exactly once per entry into the player with
\* a video or audio item, whether or not stream resolution or playback
\* succeeds.
C25_MarkViewedOncePerEntry ==
  (player.screen # "closed" /\ player.itemType \in {"video", "audio"}) =>
    player.markCalls = 1

\* The stream could not be resolved and the item was still marked viewed.
C25_Witness ==
  /\ player.screen = "open"
  /\ player.itemType = "video"
  /\ player.stream = "done"
  /\ player.videoError
  /\ ~player.response[1].ok
  /\ player.markCalls = 1

\* The player shows a track at rest at its start.
ShowsFinished == player.audioPosition = 0 /\ ~player.isPlaying

\* The session the screen holds has played to its end and the player shows it
\* so.
Finished ==
  /\ player.screen = "open"
  /\ player.sound # 0
  /\ sounds[player.sound].ended
  /\ ShowsFinished

\* A tap on play / pause, a speed button or a way out of the screen.
UserAction == PlayPauseTap \/ SpeedChange \/ HandleBack \/ Unmount

LoadedSessions == {id \in 1 .. Len(sounds) : sounds[id].loaded}

\* C27: at any time at most one audio session created by a player screen is
\* loaded, whatever the interleaving of the play tap and the auto-play effect
\* with the asynchronous creation of sessions.
C27_AtMostOneSessionLoaded == Cardinality(LoadedSessions) <= 1

\* C30: whenever an audio session is loaded, its rate equals the selected
\* rate, for any interleaving of speed changes with the asynchronous creation
\* of the session.
C30_SessionRateIsSelectedRate ==
  player.screen = "open" =>
    \A id \in LoadedSessions : sounds[id].rate = player.playbackRate

\* While the screen is open at most one session is loaded.
OneSessionWhileOpen ==
  player.screen = "open" => Cardinality(LoadedSessions) <= 1

-----------------------------------------------------------------------------
(* What logout and the 401 purge leave in the store                        *)

\* A device in use by the first account: it is logged in, has viewed an item
\* and has picked an accent colour in the settings (the SettingsProvider is
\* the only writer of that key).
InitPurge ==
  /\ storage = [LoggedInStorage EXCEPT
                  ![VIEWED_CONTENT_KEY] = Stringify(<<"v1">>),
                  ![ACCENT_COLOR_KEY] = Text("purple")]
  /\ state = AuthenticatedState("u1", "t1")
  /\ login = Idle
  /\ logout = "idle"
  /\ call = NoCall
  /\ marks = [slot \in MarkSlots |-> NoMark]
  /\ formError = ""
  /\ home = NoHome
  /\ marked = {}
  /\ faulted = FALSE
  /\ calc = NoCalc
  /\ player = NoPlayer
  /\ sounds = <<>>
  /\ zoom = NoZoom
  /\ last = NoLast
  /\ trail = NoTrail

\* The auth session and the API client on that device.
SpecPurge == InitPurge /\ [][Next]_vars

\* C29: logout() and the 401 credential purge remove only the token, user
\* and cached-subscription keys: the locally-viewed-id set and the accent
\* colour preference are left as they were.
C29_PurgeKeepsViewedAndAccent ==
  [][/\ \A k \in Keys : (storage[k] # Absent /\ storage'[k] = Absent)
                           => k \in ApiClearKeys
     /\ (LogoutStart \/ CallRespond \/ CheckSubscriptionRespond)
          => \A k \in Keys \ ApiClearKeys : storage'[k] = storage[k]]_vars

\* After a logout or a purge the second account is logged in on the device,
\* and the ids the first one viewed and its accent colour are still stored.
C29_Witness ==
  /\ storage[USER_DATA_KEY] = Stringify("u2")
  /\ state.isAuthenticated
  /\ storage[VIEWED_CONTENT_KEY] = Stringify(<<"v1">>)
  /\ storage[ACCENT_COLOR_KEY] = Text("purple")
====
